---- MODULE Spec2Model ----
(***************************************************************************)
(* Content acquisition loop of the Enhanced Search Coordinator             *)
(* (services/enhanced_search_coordinator.py) and the size/quality          *)
(* measurement of the Content Size Monitor                                  *)
(* (services/content_size_monitor.py).                                      *)
(*                                                                         *)
(* A result item is a record.  Its text fields are kept by their character *)
(* length (len(str(field)); 0 stands for an absent or empty field), its    *)
(* url is either the empty string "" or a string "<domain>/<n>".           *)
(***************************************************************************)
EXTENDS Integers, Sequences, FiniteSets, TLC

VARIABLES
    pc,              \* position of the caller / coroutine
    search_results,  \* the session's result dict
    context,         \* the context dict passed to the coordinator
    queries,         \* marketing_queries / additional_queries of the running loop
    qi,              \* index of the loop's current query (1-based)
    error,           \* exception that ended execute_marketing_focused_search
    monitoring_data, \* last snapshot returned by monitor_content_collection
    free,            \* search collaborator: calls it still answers arbitrarily
    tail,            \* search collaborator: its behaviour once `free` is used up
    nextUrl,         \* search collaborator: number of the next unseen url
    lastBatch,       \* history: last batch the collaborator returned
    answer,          \* history: kind of the collaborator's latest answer
    issued,          \* history: query strings sent to the collaborator, in order
    errSeen,         \* history: an expansion search raised in this session
    allEmpty,        \* history: every answer so far was an empty batch
    answered,        \* history: number of search calls that have answered
    returned,        \* history: what the query generators returned, call by call
    sessions,        \* the coroutines of concurrently running sessions
    filter_call      \* a call of _filter_unique_results: arguments and result

vars == <<pc, search_results, context, queries, qi, error, monitoring_data,
          free, tail, nextUrl, lastBatch, answer, issued, errSeen, allEmpty,
          answered, returned, sessions, filter_call>>

(***************************************************************************)
(* Bounds of the model.                                                    *)
(***************************************************************************)
\* number of search calls per coordinator call that the collaborator answers arbitrarily
MaxFree == 2

(***************************************************************************)
(* Configuration of the coordinator and the monitor.                       *)
(***************************************************************************)
marketing_focused_queries ==
    << "estratégias marketing digital",
       "campanhas alta conversão",
       "anúncios que converteram",
       "cases sucesso marketing",
       "ROI campanhas digitais",
       "funil vendas otimizado",
       "landing pages alta conversão",
       "copy que converte",
       "segmentação audiência",
       "automação marketing",
       "growth hacking",
       "viral marketing",
       "influencer marketing ROI",
       "email marketing conversão",
       "social media engagement" >>

target_content_size == 300 * 1024

\* unique_queries[:15]
MaxQueries == 15

KiB == 1024

None == "None"

(***************************************************************************)
(* Sequence helpers (Python list operations).                              *)
(***************************************************************************)
RECURSIVE SumSeq(_)
SumSeq(s) == IF s = <<>> THEN 0 ELSE Head(s) + SumSeq(Tail(s))

\* list(dict.fromkeys(xs)): first occurrences, order kept
RECURSIVE DictFromKeys(_, _)
DictFromKeys(xs, seen) ==
    IF xs = <<>> THEN <<>>
    ELSE IF Head(xs) \in seen THEN DictFromKeys(Tail(xs), seen)
    ELSE <<Head(xs)>> \o DictFromKeys(Tail(xs), seen \cup {Head(xs)})

\* d.get(k, default)
Get(d, k, default) == IF k \in DOMAIN d THEN d[k] ELSE default

\* mutant: the slice is dropped
Slice_Uncapped(xs, n) == xs

\* xs[:n]
Slice(xs, n) == IF Len(xs) <= n THEN xs ELSE SubSeq(xs, 1, n)

(***************************************************************************)
(* Result items.                                                           *)
(***************************************************************************)
\* `domain` is the host part of the url and `words` the set of lower-case
\* vocabulary words that occur in the item's text fields
NewItem(url, content, caption) ==
    [url |-> url, title |-> 0, snippet |-> 0, content |-> content,
     description |-> 0, text |-> 0, caption |-> caption,
     source |-> "unknown", platform |-> "web", viral_score |-> 0,
     domain |-> "site", words |-> {}]

\* a batch as the search collaborator returns it: a dict of four lists
Batch(web, social, youtube, viral) ==
    [web_results |-> web, social_results |-> social,
     youtube_results |-> youtube, viral_content |-> viral]

EmptyBatch == Batch(<<>>, <<>>, <<>>, <<>>)

(***************************************************************************)
(* EnhancedSearchCoordinator: pure helpers.                                *)
(***************************************************************************)
\* for field in ['title', 'snippet', 'content', 'description', 'text']
CoordinatorItemSize(result) ==
    result.title + result.snippet + result.content + result.description + result.text

_calculate_content_size(results) ==
    LET all_results == results.web_results \o results.social_results
                       \o results.youtube_results
    IN  SumSeq([i \in DOMAIN all_results |-> CoordinatorItemSize(all_results[i])])

RECURSIVE FilterLoop(_, _, _)
FilterLoop(new_results, existing_urls, unique_results) ==
    IF new_results = <<>> THEN unique_results
    ELSE LET result == Head(new_results)
             url == Get(result, "url", "")
         IN  IF url # "" /\ url \notin existing_urls
             THEN FilterLoop(Tail(new_results), existing_urls \cup {url},
                             Append(unique_results, result))
             ELSE FilterLoop(Tail(new_results), existing_urls, unique_results)

\* mutant: the urls of the existing list are not looked at
_filter_unique_results_IgnoreExisting(new_results, existing_results) ==
    FilterLoop(new_results, {}, <<>>)

_filter_unique_results(new_results, existing_results) ==
    FilterLoop(new_results,
               {Get(existing_results[i], "url", "") : i \in DOMAIN existing_results},
               <<>>)

\* lines 210-228: the queries built from the context
specific_queries(ctx) ==
    LET segmento == Get(ctx, "segmento", "")
        produto == Get(ctx, "produto", "")
    IN  IF segmento # "" /\ produto # ""
        THEN << segmento \o " " \o produto \o " marketing estratégias",
                segmento \o " " \o produto \o " campanhas sucesso",
                segmento \o " " \o produto \o " conversão alta",
                segmento \o " " \o produto \o " ROI marketing",
                segmento \o " " \o produto \o " cases sucesso",
                "como vender " \o produto \o " " \o segmento,
                "marketing " \o produto \o " " \o segmento \o " Brasil",
                "anúncios " \o produto \o " " \o segmento \o " converteram",
                "funil vendas " \o produto \o " " \o segmento,
                "copy " \o produto \o " " \o segmento \o " alta conversão" >>
        ELSE <<>>

\* mutant: the generic catalog is put before the context-specific queries
_generate_marketing_queries_GenericFirst(base_query, ctx) ==
    Slice(DictFromKeys(marketing_focused_queries \o specific_queries(ctx), {}),
          MaxQueries)

\* mutant: the order of the result depends on how many calls came before
_generate_marketing_queries_Drifting(base_query, ctx) ==
    LET all_queries == IF Len(returned) % 2 = 0
                       THEN specific_queries(ctx) \o marketing_focused_queries
                       ELSE marketing_focused_queries \o specific_queries(ctx)
    IN  Slice(DictFromKeys(all_queries, {}), MaxQueries)

_generate_marketing_queries(base_query, ctx) ==
    LET all_queries == specific_queries(ctx) \o marketing_focused_queries
        unique_queries == DictFromKeys(all_queries, {})
    IN  Slice(unique_queries, MaxQueries)

\* the dict built at the start of execute_marketing_focused_search
NewSearchResults(base_query) ==
    [base_query |-> base_query,
     marketing_queries_executed |-> <<>>,
     total_content_size |-> 0,
     web_results |-> <<>>,
     social_results |-> <<>>,
     youtube_results |-> <<>>,
     viral_content |-> <<>>,
     statistics |-> [queries_executed |-> 0, total_sources |-> 0,
                     content_size_bytes |-> 0, has_target_achieved |-> FALSE,
                     target_achieved |-> FALSE]]

\* lines 95-103: the base round
MergeBase(sr, base_results) ==
    [sr EXCEPT
        !.web_results = @ \o base_results.web_results,
        !.social_results = @ \o base_results.social_results,
        !.youtube_results = @ \o base_results.youtube_results,
        !.viral_content = @ \o base_results.viral_content,
        !.total_content_size = @ + _calculate_content_size(base_results)]

\* mutant: the new web results are assigned instead of appended
MergeComplementary_Overwrite(sr, query, complementary_results) ==
    LET new_web == _filter_unique_results(complementary_results.web_results,
                                          sr.web_results)
        additional_size == _calculate_content_size(complementary_results)
    IN  [sr EXCEPT
            !.web_results = new_web,
            !.total_content_size = @ + additional_size,
            !.marketing_queries_executed =
                Append(@, [query |-> query, results_count |-> Len(new_web),
                           content_size |-> additional_size])]

\* mutant: the new items are put in front of the bucket
MergeComplementary_Prepend(sr, query, complementary_results) ==
    LET new_web == _filter_unique_results(complementary_results.web_results,
                                          sr.web_results)
        new_social == _filter_unique_results(complementary_results.social_results,
                                             sr.social_results)
        new_youtube == _filter_unique_results(complementary_results.youtube_results,
                                              sr.youtube_results)
        additional_size == _calculate_content_size(complementary_results)
    IN  [sr EXCEPT
            !.web_results = new_web \o @,
            !.social_results = new_social \o @,
            !.youtube_results = new_youtube \o @,
            !.total_content_size = @ + additional_size,
            !.marketing_queries_executed =
                Append(@, [query |-> query,
                           results_count |-> Len(new_web) + Len(new_social)
                                             + Len(new_youtube),
                           content_size |-> additional_size])]

\* lines 128-155: one expansion round of execute_marketing_focused_search
MergeComplementary(sr, query, complementary_results) ==
    LET new_web == _filter_unique_results(complementary_results.web_results,
                                          sr.web_results)
        new_social == _filter_unique_results(complementary_results.social_results,
                                             sr.social_results)
        new_youtube == _filter_unique_results(complementary_results.youtube_results,
                                              sr.youtube_results)
        additional_size == _calculate_content_size(complementary_results)
    IN  [sr EXCEPT
            !.web_results = @ \o new_web,
            !.social_results = @ \o new_social,
            !.youtube_results = @ \o new_youtube,
            !.total_content_size = @ + additional_size,
            !.marketing_queries_executed =
                Append(@, [query |-> query,
                           results_count |-> Len(new_web) + Len(new_social)
                                             + Len(new_youtube),
                           content_size |-> additional_size])]

\* lines 177-189: statistics of the finished search
UpdateStatistics(sr) ==
    LET all_results == sr.web_results \o sr.social_results \o sr.youtube_results
    IN  [sr EXCEPT
            !.statistics =
                [queries_executed |-> Len(sr.marketing_queries_executed) + 1,
                 total_sources |-> Len(all_results),
                 content_size_bytes |-> sr.total_content_size,
                 has_target_achieved |-> TRUE,
                 target_achieved |-> sr.total_content_size >= target_content_size]]

\* lines 350-373: returns the dict after the in-place extends, and added_size
_add_unique_results(sr, new_results) ==
    LET unique_web == _filter_unique_results(new_results.web_results, sr.web_results)
        unique_social == _filter_unique_results(new_results.social_results,
                                                sr.social_results)
        unique_youtube == _filter_unique_results(new_results.youtube_results,
                                                 sr.youtube_results)
        unique_new_items == unique_web \o unique_social \o unique_youtube
    IN  [search_results |->
            [sr EXCEPT !.web_results = @ \o unique_web,
                       !.social_results = @ \o unique_social,
                       !.youtube_results = @ \o unique_youtube],
         added_size |->
            SumSeq([i \in DOMAIN unique_new_items |->
                        CoordinatorItemSize(unique_new_items[i])])]

\* lines 306-309: one expansion round of ensure_minimum_content_size
MergeExpansion(sr, expansion_results) ==
    LET added == _add_unique_results(sr, expansion_results)
    IN  [added.search_results EXCEPT !.total_content_size = @ + added.added_size]

_generate_expansion_queries(sr) ==
    LET base_query == sr.base_query
    IN  << base_query \o " marketing digital",
           base_query \o " estratégias vendas",
           base_query \o " campanhas sucesso",
           base_query \o " conversão alta",
           base_query \o " ROI marketing",
           base_query \o " growth hacking",
           base_query \o " funil vendas",
           base_query \o " automação marketing",
           base_query \o " social media",
           base_query \o " influencer marketing",
           base_query \o " email marketing",
           base_query \o " content marketing",
           base_query \o " paid ads",
           base_query \o " organic growth",
           base_query \o " viral marketing" >>

(***************************************************************************)
(* ContentSizeMonitor.  Scores are Python floats; they are kept as exact   *)
(* fractions [num, den] with den > 0.                                      *)
(***************************************************************************)
target_size_kb == 300

target_size_bytes == target_size_kb * 1024

\* minimum_quality_threshold = 0.7, as the fraction 7/10
minimum_quality_threshold == [num |-> 7, den |-> 10]

Frac(n, d) == [num |-> n, den |-> d]

FracLess(a, b) == a.num * b.den < b.num * a.den

\* for field in ['title', 'snippet', 'content', 'description', 'text', 'caption']
MonitorItemSize(result) ==
    result.title + result.snippet + result.content + result.description
    + result.text + result.caption

_calculate_total_size(sr) ==
    LET results == Get(sr, "web_results", <<>>) \o Get(sr, "social_results", <<>>)
                   \o Get(sr, "youtube_results", <<>>)
                   \o Get(sr, "viral_content", <<>>)
    IN  SumSeq([i \in DOMAIN results |-> MonitorItemSize(results[i])])

result_types == <<"web_results", "social_results", "youtube_results", "viral_content">>

\* type_size / type_count if type_count > 0 else 0
AvgSizePerItem(type_size, type_count) ==
    IF type_count > 0 THEN Frac(type_size, type_count) ELSE Frac(0, 1)

\* mutant: the percentage is computed without the total_size > 0 guard;
\* a denominator 0 is Python's ZeroDivisionError
Percentage_Unguarded(size_bytes, total_size) == Frac(size_bytes * 100, total_size)

\* lines 143-145: (size_bytes / total_size) * 100 if total_size > 0, else the 0
\* the entry was built with
Percentage(size_bytes, total_size) ==
    IF total_size > 0 THEN Frac(size_bytes * 100, total_size) ELSE Frac(0, 1)

_analyze_content_breakdown(sr) ==
    LET TypeSize(result_type) ==
            LET results == Get(sr, result_type, <<>>)
            IN  SumSeq([i \in DOMAIN results |-> MonitorItemSize(results[i])])
        total_size == SumSeq([t \in DOMAIN result_types |-> TypeSize(result_types[t])])
    IN  [result_type \in {result_types[t] : t \in DOMAIN result_types} |->
            [count |-> Len(Get(sr, result_type, <<>>)),
             size_bytes |-> TypeSize(result_type),
             avg_size_per_item |->
                AvgSizePerItem(TypeSize(result_type), Len(Get(sr, result_type, <<>>))),
             percentage_of_total |-> Percentage(TypeSize(result_type), total_size)]]

_analyze_size_by_source(sr) ==
    LET all_results == Get(sr, "web_results", <<>>) \o Get(sr, "social_results", <<>>)
                       \o Get(sr, "youtube_results", <<>>)
        OfSource(source) == { i \in DOMAIN all_results : all_results[i].source = source }
        Sizes(source) == [i \in DOMAIN all_results |->
                            IF i \in OfSource(source)
                            THEN MonitorItemSize(all_results[i]) ELSE 0]
    IN  [source \in { all_results[i].source : i \in DOMAIN all_results } |->
            [count |-> Cardinality(OfSource(source)),
             size_bytes |-> SumSeq(Sizes(source))]]

reliable_domains ==
    { "g1.globo.com", "exame.com", "valor.globo.com", "estadao.com.br",
      "folha.uol.com.br", "infomoney.com.br", "youtube.com", "instagram.com",
      "facebook.com" }

marketing_keywords ==
    { "marketing", "vendas", "conversão", "ROI", "campanha", "anúncio",
      "publicidade", "estratégia", "funil" }

\* x / total_sources * 10 if total_sources > 0 else 0
RatioScore(x, total_sources) ==
    IF total_sources > 0 THEN Frac(x * 10, total_sources) ELSE Frac(0, 1)

Min(a, b) == IF a <= b THEN a ELSE b

_calculate_quality_metrics(sr) ==
    LET all_results == Get(sr, "web_results", <<>>) \o Get(sr, "social_results", <<>>)
                       \o Get(sr, "youtube_results", <<>>)
        content_types == { all_results[i].platform \o "_" \o all_results[i].source :
                           i \in DOMAIN all_results }
        total_sources == Len(all_results)
        reliable_sources ==
            Cardinality({ i \in DOMAIN all_results :
                          all_results[i].domain \in reliable_domains })
        marketing_relevant ==
            Cardinality({ i \in DOMAIN all_results :
                          all_results[i].words \cap marketing_keywords # {} })
        high_engagement_count ==
            Cardinality({ i \in DOMAIN all_results :
                          all_results[i].viral_score >= 7 })
        content_diversity == Frac(Min(10, Cardinality(content_types)), 1)
        source_reliability == RatioScore(reliable_sources, total_sources)
        marketing_relevance == RatioScore(marketing_relevant, total_sources)
        viral_content_ratio ==
            RatioScore(Len(Get(sr, "viral_content", <<>>)), total_sources)
        engagement_quality == RatioScore(high_engagement_count, total_sources)
        \* weights 0.2, 0.25, 0.3, 0.15, 0.1 in hundredths; every den divides d
        d == IF total_sources > 0 THEN total_sources ELSE 1
        Scaled(score, weight) == score.num * (d \div score.den) * weight
    IN  [content_diversity |-> content_diversity,
         source_reliability |-> source_reliability,
         marketing_relevance |-> marketing_relevance,
         viral_content_ratio |-> viral_content_ratio,
         engagement_quality |-> engagement_quality,
         overall_quality |->
            Frac(Scaled(content_diversity, 20) + Scaled(source_reliability, 25)
                 + Scaled(marketing_relevance, 30) + Scaled(viral_content_ratio, 15)
                 + Scaled(engagement_quality, 10),
                 100 * d)]

\* number of entries of xs equal to x
RECURSIVE CountOf(_, _)
CountOf(xs, x) ==
    IF xs = <<>> THEN 0
    ELSE (IF Head(xs) = x THEN 1 ELSE 0) + CountOf(Tail(xs), x)

\* lines 279-342; a message is kept by its fixed leading words
_generate_recommendations(md, sr) ==
    LET quality_metrics == md.quality_metrics
        content_breakdown == md.content_breakdown
        web_percentage == content_breakdown["web_results"].percentage_of_total
        social_percentage == content_breakdown["social_results"].percentage_of_total
        marketing_insights == Get(sr, "marketing_insights", <<>>)
        size_part ==
            IF ~md.target_achieved
            THEN << "EXPANDIR BUSCA", "Sugestão" >>
            ELSE << "META ATINGIDA" >>
        quality_part ==
            IF FracLess(md.quality_score, Frac(7, 1))
            THEN << "QUALIDADE BAIXA" >>
                 \o (IF FracLess(quality_metrics.marketing_relevance, Frac(6, 1))
                     THEN << "Aumentar relevância" >> ELSE <<>>)
                 \o (IF FracLess(quality_metrics.viral_content_ratio, Frac(5, 1))
                     THEN << "Buscar mais conteúdo viral" >> ELSE <<>>)
                 \o (IF FracLess(quality_metrics.source_reliability, Frac(6, 1))
                     THEN << "Melhorar fontes" >> ELSE <<>>)
            ELSE << "QUALIDADE ALTA" >>
        diversity_part ==
            IF FracLess(Frac(80, 1), web_percentage) THEN << "DIVERSIFICAR" >>
            ELSE IF FracLess(Frac(70, 1), social_percentage) THEN << "EQUILIBRAR" >>
            ELSE << "BOA DIVERSIDADE" >>
        insights_part ==
            IF marketing_insights = <<>> THEN <<>>
            ELSE IF marketing_insights.total_insights < 20
            THEN << "AUMENTAR INSIGHTS" >>
            ELSE << "INSIGHTS RICOS" >>
    IN  size_part \o quality_part \o diversity_part \o insights_part

\* lines 73-75: the recommendations are stored in the snapshot
WithRecommendations(md, sr) ==
    [target_size_kb |-> md.target_size_kb,
     current_size_bytes |-> md.current_size_bytes,
     content_breakdown |-> md.content_breakdown,
     size_by_source |-> md.size_by_source,
     quality_metrics |-> md.quality_metrics,
     quality_score |-> md.quality_score,
     target_achieved |-> md.target_achieved,
     recommendations |-> _generate_recommendations(md, sr)]

\* mutant: the target counts as achieved only above the target size
monitor_content_collection_Strict(sr) ==
    LET current_size == _calculate_total_size(sr)
        quality_metrics == _calculate_quality_metrics(sr)
    IN  WithRecommendations(
            [target_size_kb |-> target_size_kb,
             current_size_bytes |-> current_size,
             content_breakdown |-> _analyze_content_breakdown(sr),
             size_by_source |-> _analyze_size_by_source(sr),
             quality_metrics |-> quality_metrics,
             quality_score |-> quality_metrics.overall_quality,
             target_achieved |-> current_size > target_size_bytes], sr)

\* lines 28-89: the snapshot returned to the caller
monitor_content_collection(sr) ==
    LET current_size == _calculate_total_size(sr)
        quality_metrics == _calculate_quality_metrics(sr)
    IN  WithRecommendations(
            [target_size_kb |-> target_size_kb,
             current_size_bytes |-> current_size,
             content_breakdown |-> _analyze_content_breakdown(sr),
             size_by_source |-> _analyze_size_by_source(sr),
             quality_metrics |-> quality_metrics,
             quality_score |-> quality_metrics.overall_quality,
             target_achieved |-> current_size >= target_size_bytes], sr)

\* lines 365-465: the report divides each source's size_kb by current_size_kb
\* (line 430); with a source entry and a size of 0 that is a ZeroDivisionError
generate_size_report(md) ==
    IF DOMAIN md.size_by_source # {} /\ md.current_size_bytes = 0
    THEN "ZeroDivisionError" ELSE "report"

\* lines 483-504: whatever the save raises is logged, never propagated
_save_monitoring_data(md) ==
    IF generate_size_report(md) = "report" THEN "saved" ELSE "error_logged"

\* the exception that leaves the try block of monitor_content_collection
\* (lines 51-89), None when it returns: a quotient with denominator 0 in the
\* breakdown raises ZeroDivisionError, which line 89 re-raises
MonitorError(md) ==
    IF \E t \in DOMAIN md.content_breakdown :
          \/ md.content_breakdown[t].avg_size_per_item.den = 0
          \/ md.content_breakdown[t].percentage_of_total.den = 0
    THEN "ZeroDivisionError" ELSE None

\* lines 517-524
check_expansion_needed(md) ==
    ~md.target_achieved \/ FracLess(md.quality_score, minimum_quality_threshold)

(***************************************************************************)
(* The search collaborator (real_search_orchestrator): one opaque call     *)
(* that raises, returns nothing (None or {}), or returns a batch.          *)
(***************************************************************************)
Url(n) == "site/" \o ToString(n)

\* an answer of the collaborator: it raised, returned None/{}, or a batch
Raised == [kind |-> "error", batch |-> EmptyBatch]

Nothing == [kind |-> "none", batch |-> EmptyBatch]

Returned(batch) == [kind |-> "batch", batch |-> batch]

FreshBatches(n) ==
    { Batch(<<NewItem(Url(n), 50 * KiB, 0)>>, <<>>, <<>>, <<>>),
      Batch(<<NewItem(Url(n), 60 * KiB, 0)>>, <<>>, <<>>, <<>>),
      Batch(<<NewItem(Url(n), 300 * KiB, 0)>>, <<>>, <<>>, <<>>),
      Batch(<<>>, <<>>, <<>>, <<NewItem(Url(n), 50 * KiB, 0)>>),
      Batch(<<>>, <<>>, <<NewItem(Url(n), 50 * KiB, KiB)>>, <<>>),
      Batch(<<NewItem(Url(n), 50 * KiB, 0)>>, <<NewItem(Url(n), 50 * KiB, 0)>>,
            <<>>, <<>>) }

\* what the collaborator may answer to the next call
Answers ==
    IF free > 0
    THEN {Raised, Nothing, Returned(EmptyBatch)}
         \cup {Returned(b) : b \in FreshBatches(nextUrl)}
         \cup {Returned(lastBatch[i]) : i \in DOMAIN lastBatch}
    ELSE IF tail = "fresh"
    THEN {Returned(Batch(<<NewItem(Url(nextUrl), 60 * KiB, 0)>>, <<>>, <<>>, <<>>))}
    ELSE {Nothing}

IsEmptyAnswer(a) == a.kind # "error" /\ a.batch = EmptyBatch

\* the collaborator's own state after giving `answer`
Answered(a) ==
    /\ free' = IF free > 0 THEN free - 1 ELSE 0
    /\ nextUrl' = IF a.kind = "batch" /\ a.batch # EmptyBatch
                     /\ <<a.batch>> # lastBatch
                  THEN nextUrl + 1 ELSE nextUrl
    /\ lastBatch' = IF a.kind = "batch" THEN <<a.batch>> ELSE lastBatch
    /\ answer' = a.kind
    /\ answered' = answered + 1
    /\ allEmpty' = (allEmpty /\ IsEmptyAnswer(a))
    /\ UNCHANGED tail

(***************************************************************************)
(* execute_marketing_focused_search                                        *)
(***************************************************************************)
BaseQuery == "patchwork Brasil"

Contexts == { [segmento |-> "", produto |-> ""],
              [segmento |-> "artesanato", produto |-> "curso"] }

Init ==
    /\ pc = "idle"
    /\ search_results = NewSearchResults("")
    /\ context \in Contexts
    /\ queries = <<>>
    /\ qi = 0
    /\ error = None
    /\ monitoring_data = <<>>
    /\ free = MaxFree
    /\ tail \in {"dry", "fresh"}
    /\ nextUrl = 1
    /\ lastBatch = <<>>
    /\ answer = ""
    /\ issued = <<>>
    /\ errSeen = FALSE
    /\ allEmpty = TRUE
    /\ answered = 0
    /\ returned = <<>>
    /\ filter_call = <<>>
    /\ sessions = <<>>

\* lines 54-93: build the result dict and issue the base search
Execute ==
    /\ pc = "idle"
    /\ search_results' = NewSearchResults(BaseQuery)
    /\ issued' = Append(issued, BaseQuery)
    /\ pc' = "await_base"
    /\ UNCHANGED <<context, queries, qi, error, monitoring_data, free, tail,
                   nextUrl, lastBatch, answer, errSeen, allEmpty,
                   answered, returned, sessions, filter_call>>

\* mutant: a failing base search is logged and treated as an empty batch
BaseSearchFails_Swallowed ==
    /\ pc = "await_base"
    /\ Raised \in Answers
    /\ Answered(Raised)
    /\ queries' = _generate_marketing_queries(BaseQuery, context)
    /\ qi' = 1
    /\ pc' = "loop"
    /\ UNCHANGED <<search_results, context, error, monitoring_data, issued, errSeen,
                   returned, sessions, filter_call>>

\* lines 89-93, 202-205: the base search raised; the error is re-raised
BaseSearchFails ==
    /\ pc = "await_base"
    /\ Raised \in Answers
    /\ Answered(Raised)
    /\ error' = "search"
    /\ pc' = "raised"
    /\ UNCHANGED <<search_results, context, queries, qi, monitoring_data,
                   issued, errSeen,
                   returned, sessions, filter_call>>

\* lines 95-111: merge of the base batch, then the marketing queries
BaseSearchReturns ==
    /\ pc = "await_base"
    /\ \E base_results \in Answers \ {Raised} :
          /\ Answered(base_results)
          /\ search_results' = IF base_results.kind = "batch"
                               THEN MergeBase(search_results, base_results.batch)
                               ELSE search_results
    /\ queries' = _generate_marketing_queries(BaseQuery, context)
    /\ qi' = 1
    /\ pc' = "loop"
    /\ UNCHANGED <<context, error, monitoring_data, issued, errSeen,
                   returned, sessions, filter_call>>

\* lines 114-117: the target is met, break
LoopBreak ==
    /\ pc = "loop"
    /\ qi <= Len(queries)
    /\ search_results.total_content_size >= target_content_size
    /\ pc' = "finish"
    /\ UNCHANGED <<search_results, context, queries, qi, error, monitoring_data,
                   free, tail, nextUrl, lastBatch, answer, issued, errSeen, allEmpty,
                   answered, returned, sessions, filter_call>>

\* line 114: marketing_queries is used up
LoopExhausted ==
    /\ pc = "loop"
    /\ qi > Len(queries)
    /\ pc' = "finish"
    /\ UNCHANGED <<search_results, context, queries, qi, error, monitoring_data,
                   free, tail, nextUrl, lastBatch, answer, issued, errSeen, allEmpty,
                   answered, returned, sessions, filter_call>>

\* mutant: the search is issued until the size exceeds the target
IssueComplementary_Exceeds ==
    /\ pc = "loop"
    /\ qi <= Len(queries)
    /\ ~(search_results.total_content_size > target_content_size)
    /\ issued' = Append(issued, queries[qi])
    /\ pc' = "await_complementary"
    /\ UNCHANGED <<search_results, context, queries, qi, error, monitoring_data,
                   free, tail, nextUrl, lastBatch, answer, errSeen, allEmpty,
                   answered, returned, sessions, filter_call>>

\* mutant: the next search is issued without waiting for the answer of the
\* one that is outstanding
IssueComplementary_Eager ==
    /\ pc \in {"loop", "await_complementary"}
    /\ qi <= Len(queries)
    /\ Len(issued) <= MaxQueries
    /\ ~(search_results.total_content_size >= target_content_size)
    /\ issued' = Append(issued, queries[qi])
    /\ pc' = "await_complementary"
    /\ UNCHANGED <<search_results, context, queries, qi, error, monitoring_data,
                   free, tail, nextUrl, lastBatch, answer, errSeen, allEmpty,
                   answered, returned, sessions, filter_call>>

\* lines 119-126: the complementary search is issued and awaited
IssueComplementary ==
    /\ pc = "loop"
    /\ qi <= Len(queries)
    /\ ~(search_results.total_content_size >= target_content_size)
    /\ issued' = Append(issued, queries[qi])
    /\ pc' = "await_complementary"
    /\ UNCHANGED <<search_results, context, queries, qi, error, monitoring_data,
                   free, tail, nextUrl, lastBatch, answer, errSeen, allEmpty,
                   answered, returned, sessions, filter_call>>

\* mutant: the handler of a failed round starts the result dict afresh
ComplementaryFails_Reset ==
    /\ pc = "await_complementary"
    /\ Raised \in Answers
    /\ Answered(Raised)
    /\ search_results' = NewSearchResults(BaseQuery)
    /\ errSeen' = TRUE
    /\ qi' = qi + 1
    /\ pc' = "loop"
    /\ UNCHANGED <<context, queries, error, monitoring_data, issued,
                   returned, sessions, filter_call>>

\* mutant: a failed round is tried again with the same query
ComplementaryFails_Retry ==
    /\ pc = "await_complementary"
    /\ Raised \in Answers
    /\ Answered(Raised)
    /\ errSeen' = TRUE
    /\ qi' = qi
    /\ pc' = "loop"
    /\ UNCHANGED <<search_results, context, queries, error, monitoring_data,
                   issued, returned, sessions, filter_call>>

\* lines 162-164: the complementary search raised; logged, continue
ComplementaryFails ==
    /\ pc = "await_complementary"
    /\ Raised \in Answers
    /\ Answered(Raised)
    /\ errSeen' = TRUE
    /\ qi' = qi + 1
    /\ pc' = "loop"
    /\ UNCHANGED <<search_results, context, queries, error, monitoring_data,
                   issued,
                   returned, sessions, filter_call>>

\* lines 128-160: merge of a complementary batch
ComplementaryReturns ==
    /\ pc = "await_complementary"
    /\ \E complementary_results \in Answers \ {Raised} :
          /\ Answered(complementary_results)
          /\ search_results' =
                IF complementary_results.kind = "batch"
                THEN MergeComplementary(search_results, queries[qi],
                                        complementary_results.batch)
                ELSE search_results
    /\ qi' = qi + 1
    /\ pc' = "loop"
    /\ UNCHANGED <<context, queries, error, monitoring_data, issued, errSeen,
                   returned, sessions, filter_call>>

\* lines 166-205: insights, statistics, save; the log line 195 reads the
\* undefined name `stats`, the NameError is caught at 202 and re-raised
Finish ==
    /\ pc = "finish"
    /\ search_results' = UpdateStatistics(search_results)
    /\ error' = "NameError"
    /\ pc' = "raised"
    /\ UNCHANGED <<context, queries, qi, monitoring_data, free, tail, nextUrl,
                   lastBatch, answer, issued, errSeen, allEmpty,
                   answered, returned, sessions, filter_call>>

(***************************************************************************)
(* The caller's next steps on the result dict (execute_stage1.py 68-92,    *)
(* routes/enhanced_workflow.py 363-383): measure, expand if needed,        *)
(* measure again.  The dict is the one execute_marketing_focused_search    *)
(* built and saved at line 192 before line 195 raised.                     *)
(***************************************************************************)
\* content_size_monitor.monitor_content_collection(search_results, session_id)
Monitor ==
    /\ pc = "raised"
    /\ error = "NameError"
    /\ MonitorError(monitor_content_collection(search_results)) = None
    /\ monitoring_data' = <<monitor_content_collection(search_results)>>
    /\ pc' = "monitored"
    /\ UNCHANGED <<search_results, context, queries, qi, error, free, tail,
                   nextUrl, lastBatch, answer, issued, errSeen, allEmpty,
                   answered, returned, sessions, filter_call>>

\* execute_stage1.py 77: check_expansion_needed is false, no expansion
SkipExpansion ==
    /\ pc = "monitored"
    /\ ~check_expansion_needed(monitoring_data[1])
    /\ pc' = "done"
    /\ UNCHANGED <<search_results, context, queries, qi, error, monitoring_data,
                   free, tail, nextUrl, lastBatch, answer, issued, errSeen, allEmpty,
                   answered, returned, sessions, filter_call>>

(***************************************************************************)
(* ensure_minimum_content_size (target_size = None, the default)           *)
(***************************************************************************)
\* mutant: with the size target met but the quality low, the first expansion
\* query is issued all the same
EnsureNoop_QualityAware ==
    /\ pc = "monitored"
    /\ check_expansion_needed(monitoring_data[1])
    /\ search_results.total_content_size >= target_content_size
    /\ queries' = _generate_expansion_queries(search_results)
    /\ qi' = 1
    /\ free' = MaxFree
    /\ issued' = Append(issued, _generate_expansion_queries(search_results)[1])
    /\ pc' = "await_expansion"
    /\ UNCHANGED <<search_results, context, error, monitoring_data, tail,
                   nextUrl, lastBatch, answer, errSeen, allEmpty,
                   answered, returned, sessions, filter_call>>

\* lines 279-286: the size target is already met, return the dict as it is
EnsureNoop ==
    /\ pc = "monitored"
    /\ check_expansion_needed(monitoring_data[1])
    /\ search_results.total_content_size >= target_content_size
    /\ pc' = "ensured"
    /\ UNCHANGED <<search_results, context, queries, qi, error, monitoring_data,
                   free, tail, nextUrl, lastBatch, answer, issued, errSeen, allEmpty,
                   answered, returned, sessions, filter_call>>

\* lines 279-291: the expansion queries are generated
EnsureStart ==
    /\ pc = "monitored"
    /\ check_expansion_needed(monitoring_data[1])
    /\ ~(search_results.total_content_size >= target_content_size)
    /\ queries' = _generate_expansion_queries(search_results)
    /\ qi' = 1
    /\ free' = MaxFree
    /\ pc' = "expansion_loop"
    /\ UNCHANGED <<search_results, context, error, monitoring_data, tail,
                   nextUrl, lastBatch, answer, issued, errSeen, allEmpty,
                   answered, returned, sessions, filter_call>>

\* lines 293-295: the target is met, break; lines 319-322: return
ExpansionBreak ==
    /\ pc = "expansion_loop"
    /\ qi <= Len(queries)
    /\ search_results.total_content_size >= target_content_size
    /\ pc' = "ensured"
    /\ UNCHANGED <<search_results, context, queries, qi, error, monitoring_data,
                   free, tail, nextUrl, lastBatch, answer, issued, errSeen, allEmpty,
                   answered, returned, sessions, filter_call>>

\* line 293: additional_queries is used up; lines 319-322: return
ExpansionExhausted ==
    /\ pc = "expansion_loop"
    /\ qi > Len(queries)
    /\ pc' = "ensured"
    /\ UNCHANGED <<search_results, context, queries, qi, error, monitoring_data,
                   free, tail, nextUrl, lastBatch, answer, issued, errSeen, allEmpty,
                   answered, returned, sessions, filter_call>>

\* lines 297-304: the expansion search is issued and awaited
IssueExpansion ==
    /\ pc = "expansion_loop"
    /\ qi <= Len(queries)
    /\ ~(search_results.total_content_size >= target_content_size)
    /\ issued' = Append(issued, queries[qi])
    /\ pc' = "await_expansion"
    /\ UNCHANGED <<search_results, context, queries, qi, error, monitoring_data,
                   free, tail, nextUrl, lastBatch, answer, errSeen, allEmpty,
                   answered, returned, sessions, filter_call>>

\* lines 315-317: the expansion search raised; logged, continue
ExpansionFails ==
    /\ pc = "await_expansion"
    /\ Raised \in Answers
    /\ Answered(Raised)
    /\ errSeen' = TRUE
    /\ qi' = qi + 1
    /\ pc' = "expansion_loop"
    /\ UNCHANGED <<search_results, context, queries, error, monitoring_data,
                   issued,
                   returned, sessions, filter_call>>

\* lines 306-313: merge of an expansion batch
ExpansionReturns ==
    /\ pc = "await_expansion"
    /\ \E expansion_results \in Answers \ {Raised} :
          /\ Answered(expansion_results)
          /\ search_results' =
                IF expansion_results.kind = "batch"
                THEN MergeExpansion(search_results, expansion_results.batch)
                ELSE search_results
    /\ qi' = qi + 1
    /\ pc' = "expansion_loop"
    /\ UNCHANGED <<context, queries, error, monitoring_data, issued, errSeen,
                   returned, sessions, filter_call>>

\* execute_stage1.py 85-92: the expanded dict is measured again
MonitorAgain ==
    /\ pc = "ensured"
    /\ MonitorError(monitor_content_collection(search_results)) = None
    /\ monitoring_data' = <<monitor_content_collection(search_results)>>
    /\ pc' = "done"
    /\ UNCHANGED <<search_results, context, queries, qi, error, free, tail,
                   nextUrl, lastBatch, answer, issued, errSeen, allEmpty,
                   answered, returned, sessions, filter_call>>

Next ==
    \/ Execute
    \/ BaseSearchFails
    \/ BaseSearchReturns
    \/ LoopBreak
    \/ LoopExhausted
    \/ IssueComplementary
    \/ ComplementaryFails
    \/ ComplementaryReturns
    \/ Finish
    \/ Monitor
    \/ SkipExpansion
    \/ EnsureNoop
    \/ EnsureStart
    \/ ExpansionBreak
    \/ ExpansionExhausted
    \/ IssueExpansion
    \/ ExpansionFails
    \/ ExpansionReturns
    \/ MonitorAgain

Spec == Init /\ [][Next]_vars

\* the steps of the execute_marketing_focused_search coroutine
EmfsNext ==
    \/ Execute
    \/ BaseSearchFails
    \/ BaseSearchReturns
    \/ LoopBreak
    \/ LoopExhausted
    \/ IssueComplementary
    \/ ComplementaryFails
    \/ ComplementaryReturns
    \/ Finish

\* the event loop resumes the coroutine whenever the awaited call has answered
FairSpec == Spec /\ WF_vars(EmfsNext)

\* the steps of the ensure_minimum_content_size coroutine
EmcsNext ==
    \/ EnsureNoop
    \/ EnsureStart
    \/ ExpansionBreak
    \/ ExpansionExhausted
    \/ IssueExpansion
    \/ ExpansionFails
    \/ ExpansionReturns

\* both coroutines are resumed whenever their awaited call has answered
LoopFairSpec == Spec /\ WF_vars(EmfsNext) /\ WF_vars(EmcsNext)

(***************************************************************************)
(* The monitor as a function of its argument: any result dict a caller     *)
(* may hand to monitor_content_collection.                                 *)
(***************************************************************************)
\* bound: copies of one kind of item in a bucket of a measured dict
MaxCopies == 2

MonitorItemKinds == {"plain", "trusted", "viral", "blank"}

MonitorItem(kind, n) ==
    IF kind = "plain"
    THEN NewItem(Url(n), 100, 0)
    ELSE IF kind = "trusted"
    THEN [NewItem("exame.com/" \o ToString(n), 200 * KiB, 0) EXCEPT
             !.domain = "exame.com", !.words = {"marketing", "roi"},
             !.source = "serper", !.title = 20]
    ELSE IF kind = "viral"
    THEN [NewItem("instagram.com/" \o ToString(n), 0, 50) EXCEPT
             !.domain = "instagram.com", !.platform = "instagram",
             !.source = "apify", !.viral_score = 9]
    ELSE NewItem(Url(n), 0, 0)

Bucket(kind, k, first) == [i \in 1..k |-> MonitorItem(kind, first + i)]

BucketChoices(first) ==
    {<<>>} \cup { Bucket(kind, k, first) : kind \in MonitorItemKinds, k \in 1..MaxCopies }

MonitorInputs ==
    { LET b == Batch(w, s, y, v)
      IN  [NewSearchResults(BaseQuery) EXCEPT
              !.web_results = w, !.social_results = s, !.youtube_results = y,
              !.viral_content = v,
              !.total_content_size = _calculate_content_size(b)] :
      w \in BucketChoices(0), s \in BucketChoices(10),
      y \in BucketChoices(20), v \in BucketChoices(30) }

\* the dict without the keys in `missing`
WithoutKeys(d, missing) == [k \in DOMAIN d \ missing |-> d[k]]

\* category-incomplete dicts, and the empty dict {}
DegenerateInputs ==
    { WithoutKeys(Batch(w, s, y, v), missing) :
        w \in {<<>>, Bucket("plain", 1, 0)}, s \in {<<>>, Bucket("viral", 1, 10)},
        y \in {<<>>, Bucket("blank", 1, 20)}, v \in {<<>>, Bucket("viral", 1, 30)},
        missing \in SUBSET {"web_results", "social_results", "youtube_results",
                            "viral_content"} }

MonitorInit ==
    /\ pc = "monitor_input"
    /\ search_results \in MonitorInputs \cup DegenerateInputs
    /\ context = [segmento |-> "", produto |-> ""]
    /\ queries = <<>>
    /\ qi = 0
    /\ error = None
    /\ monitoring_data = <<>>
    /\ free = 0
    /\ tail = "dry"
    /\ nextUrl = 1
    /\ lastBatch = <<>>
    /\ answer = ""
    /\ issued = <<>>
    /\ errSeen = FALSE
    /\ allEmpty = TRUE
    /\ answered = 0
    /\ returned = <<>>
    /\ filter_call = <<>>
    /\ sessions = <<>>

\* monitor_content_collection(search_results, session_id) on the given dict
MeasureInput ==
    /\ pc = "monitor_input"
    /\ LET md == monitor_content_collection(search_results)
       IN  /\ error' = MonitorError(md)
           /\ monitoring_data' = IF MonitorError(md) = None THEN <<md>> ELSE <<>>
    /\ pc' = "measured"
    /\ UNCHANGED <<search_results, context, queries, qi, free, tail,
                   nextUrl, lastBatch, answer, issued, errSeen, allEmpty,
                   answered, returned, sessions, filter_call>>

\* mutant: the monitor keeps a running size between calls
MeasureAgain_Accumulating ==
    /\ pc = "measured"
    /\ monitoring_data # <<>>
    /\ LET md == monitor_content_collection(search_results)
       IN  monitoring_data' =
              Append(monitoring_data,
                     [md EXCEPT !.current_size_bytes =
                                   @ + monitoring_data[1].current_size_bytes])
    /\ pc' = "measured_again"
    /\ UNCHANGED <<search_results, context, queries, qi, error, free, tail,
                   nextUrl, lastBatch, answer, issued, errSeen, allEmpty,
                   answered, returned, sessions, filter_call>>

\* a second monitor_content_collection(search_results, session_id) on the
\* same dict (execute_stage1.py 86-89 measures the session's dict again)
MeasureAgain ==
    /\ pc = "measured"
    /\ monitoring_data # <<>>
    /\ LET md == monitor_content_collection(search_results)
       IN  /\ MonitorError(md) = None
           /\ monitoring_data' = Append(monitoring_data, md)
    /\ pc' = "measured_again"
    /\ UNCHANGED <<search_results, context, queries, qi, error, free, tail,
                   nextUrl, lastBatch, answer, issued, errSeen, allEmpty,
                   answered, returned, sessions, filter_call>>

MonitorNext ==
    \/ MeasureInput
    \/ MeasureAgain

MonitorSpec == MonitorInit /\ [][MonitorNext]_vars

(***************************************************************************)
(* The query generators as functions of their arguments: calls of          *)
(* _generate_marketing_queries and _generate_expansion_queries on the      *)
(* module-level coordinator, with sessions on the same base query between  *)
(* them.                                                                   *)
(***************************************************************************)
\* bound: generator calls in one behaviour
MaxCalls == 3

QueryBaseQueries == {"patchwork Brasil", "growth hacking", ""}

\* context dicts: both keys, one key, none; empty and non-empty values
QueryContexts ==
    { [segmento |-> sg, produto |-> pr] :
        sg \in {"", "artesanato", "moda"}, pr \in {"", "curso", "growth hacking"} }
    \cup { [segmento |-> "artesanato"], [produto |-> "curso"],
           [tema |-> "patchwork"] }

QueryInit ==
    /\ pc = "query_idle"
    /\ search_results \in {NewSearchResults(b) : b \in QueryBaseQueries}
    /\ context \in QueryContexts
    /\ queries = <<>>
    /\ qi = 0
    /\ error = None
    /\ monitoring_data = <<>>
    /\ free = 0
    /\ tail = "dry"
    /\ nextUrl = 1
    /\ lastBatch = <<>>
    /\ answer = ""
    /\ issued = <<>>
    /\ errSeen = FALSE
    /\ allEmpty = TRUE
    /\ answered = 0
    /\ returned = <<>>
    /\ filter_call = <<>>
    /\ sessions = <<>>

\* self._generate_marketing_queries(base_query, context)
CallMarketingQueries ==
    /\ pc \in {"query_idle", "query_returned"}
    /\ Len(returned) < MaxCalls
    /\ queries' = _generate_marketing_queries(search_results.base_query, context)
    /\ returned' = Append(returned,
                          [fn |-> "_generate_marketing_queries",
                           base_query |-> search_results.base_query,
                           context |-> context,
                           result |-> queries'])
    /\ pc' = "query_returned"
    /\ UNCHANGED <<search_results, context, qi, error, monitoring_data, free, tail,
                   nextUrl, lastBatch, answer, issued, errSeen, allEmpty,
                   answered, sessions, filter_call>>

\* self._generate_expansion_queries(search_results)
CallExpansionQueries ==
    /\ pc \in {"query_idle", "query_returned"}
    /\ Len(returned) < MaxCalls
    /\ queries' = _generate_expansion_queries(search_results)
    /\ returned' = Append(returned,
                          [fn |-> "_generate_expansion_queries",
                           base_query |-> search_results.base_query,
                           context |-> context,
                           result |-> queries'])
    /\ pc' = "query_returned"
    /\ UNCHANGED <<search_results, context, qi, error, monitoring_data, free, tail,
                   nextUrl, lastBatch, answer, issued, errSeen, allEmpty,
                   answered, sessions, filter_call>>

\* a session on the same base query and context ran to its end in between:
\* it built and filled a dict of its own and assigned no attribute of the
\* coordinator
SessionBetween ==
    /\ pc = "query_returned"
    /\ \E b \in FreshBatches(1) :
          search_results' = UpdateStatistics(
              MergeBase(NewSearchResults(search_results.base_query), b))
    /\ pc' = "query_idle"
    /\ UNCHANGED <<context, queries, qi, error, monitoring_data, free, tail,
                   nextUrl, lastBatch, answer, issued, errSeen, allEmpty,
                   answered, returned, sessions, filter_call>>

QueryNext ==
    \/ CallMarketingQueries
    \/ CallExpansionQueries
    \/ SessionBetween

QuerySpec == QueryInit /\ [][QueryNext]_vars

(***************************************************************************)
(* Two sessions on the module-level coordinator and monitor                *)
(* (routes/enhanced_workflow.py starts each workflow in a thread of its    *)
(* own).  A session is the frame of its execute_marketing_focused_search   *)
(* coroutine: its arguments, its local dict, its loop position.  The       *)
(* collaborator answers a session's k-th call according to the session's   *)
(* plan, so that the same session can be run alone and interleaved.        *)
(***************************************************************************)
SessionIds == {1, 2}

Plans == {"fatal", "dry", "fresh", "flaky"}

SessionInputs ==
    { [base_query |-> "patchwork Brasil",
       context |-> [segmento |-> "artesanato", produto |-> "curso"]],
      [base_query |-> "growth hacking",
       context |-> [segmento |-> "", produto |-> ""]] }

\* the frame of a session before its coroutine starts
NewSession(input, plan) ==
    [pc |-> "idle", base_query |-> input.base_query, context |-> input.context,
     plan |-> plan, search_results |-> NewSearchResults(""), queries |-> <<>>,
     qi |-> 0, issued |-> <<>>, error |-> None, monitoring_data |-> <<>>]

\* the collaborator's answer to the k-th search call of a session
PlannedAnswer(plan, k) ==
    LET web(n, kib) == Returned(Batch(<<NewItem(Url(n), kib * KiB, 0)>>,
                                      <<>>, <<>>, <<>>))
    IN  IF plan = "fatal" THEN Raised
        ELSE IF k = 1 THEN web(1, 50)
        ELSE IF plan = "dry" THEN Nothing
        ELSE IF plan = "fresh" THEN web(k, 60)
        ELSE IF k = 2 THEN Raised
        ELSE IF k = 3 THEN web(1, 50)
        ELSE web(k, 100)

\* lines 54-93
StepExecute(x) ==
    [x EXCEPT !.search_results = NewSearchResults(x.base_query),
              !.issued = Append(@, x.base_query),
              !.pc = "await_base"]

\* lines 89-111 and 202-205
StepBase(x) ==
    LET base_results == PlannedAnswer(x.plan, Len(x.issued))
    IN  IF base_results = Raised
        THEN [x EXCEPT !.error = "search", !.pc = "raised"]
        ELSE [x EXCEPT
                !.search_results = IF base_results.kind = "batch"
                                   THEN MergeBase(@, base_results.batch) ELSE @,
                !.queries = _generate_marketing_queries(x.base_query, x.context),
                !.qi = 1,
                !.pc = "loop"]

\* lines 114-126
StepLoop(x) ==
    IF x.qi > Len(x.queries) THEN [x EXCEPT !.pc = "finish"]
    ELSE IF x.search_results.total_content_size >= target_content_size
    THEN [x EXCEPT !.pc = "finish"]
    ELSE [x EXCEPT !.issued = Append(@, x.queries[x.qi]),
                   !.pc = "await_complementary"]

\* lines 128-164
StepComplementary(x) ==
    LET complementary_results == PlannedAnswer(x.plan, Len(x.issued))
    IN  [x EXCEPT
            !.search_results =
                IF complementary_results.kind = "batch"
                THEN MergeComplementary(@, x.queries[x.qi],
                                        complementary_results.batch)
                ELSE @,
            !.qi = @ + 1,
            !.pc = "loop"]

\* lines 166-205
StepFinish(x) ==
    [x EXCEPT !.search_results = UpdateStatistics(@),
              !.error = "NameError",
              !.pc = "raised"]

\* content_size_monitor.monitor_content_collection on the session's dict
StepMonitor(x) ==
    [x EXCEPT !.monitoring_data = <<monitor_content_collection(x.search_results)>>,
              !.pc = "monitored"]

SessionDone(x) == x.pc = "monitored" \/ (x.pc = "raised" /\ x.error = "search")

TwoInit ==
    /\ sessions \in [SessionIds -> {NewSession(i, p) : i \in SessionInputs, p \in Plans}]
    /\ pc = "sessions"
    /\ search_results = NewSearchResults("")
    /\ context = [segmento |-> "", produto |-> ""]
    /\ queries = <<>>
    /\ qi = 0
    /\ error = None
    /\ monitoring_data = <<>>
    /\ free = 0
    /\ tail = "dry"
    /\ nextUrl = 1
    /\ lastBatch = <<>>
    /\ answer = ""
    /\ issued = <<>>
    /\ errSeen = FALSE
    /\ allEmpty = TRUE
    /\ answered = 0
    /\ returned = <<>>
    /\ filter_call = <<>>

SessionExecute(s) ==
    /\ sessions[s].pc = "idle"
    /\ sessions' = [sessions EXCEPT ![s] = StepExecute(@)]
    /\ UNCHANGED <<pc, search_results, context, queries, qi, error, monitoring_data,
                   free, tail, nextUrl, lastBatch, answer, issued, errSeen,
                   allEmpty, answered, returned, filter_call>>

SessionBase(s) ==
    /\ sessions[s].pc = "await_base"
    /\ sessions' = [sessions EXCEPT ![s] = StepBase(@)]
    /\ UNCHANGED <<pc, search_results, context, queries, qi, error, monitoring_data,
                   free, tail, nextUrl, lastBatch, answer, issued, errSeen,
                   allEmpty, answered, returned, filter_call>>

SessionLoop(s) ==
    /\ sessions[s].pc = "loop"
    /\ sessions' = [sessions EXCEPT ![s] = StepLoop(@)]
    /\ UNCHANGED <<pc, search_results, context, queries, qi, error, monitoring_data,
                   free, tail, nextUrl, lastBatch, answer, issued, errSeen,
                   allEmpty, answered, returned, filter_call>>

\* mutant: the result dict is an attribute of the shared coordinator, so the
\* merge of one session lands in the dict of every session
SessionComplementary_Shared(s) ==
    /\ sessions[s].pc = "await_complementary"
    /\ sessions' = [t \in SessionIds |->
                       IF t = s THEN StepComplementary(sessions[s])
                       ELSE [sessions[t] EXCEPT !.search_results =
                                StepComplementary(sessions[s]).search_results]]
    /\ UNCHANGED <<pc, search_results, context, queries, qi, error, monitoring_data,
                   free, tail, nextUrl, lastBatch, answer, issued, errSeen,
                   allEmpty, answered, returned, filter_call>>

SessionComplementary(s) ==
    /\ sessions[s].pc = "await_complementary"
    /\ sessions' = [sessions EXCEPT ![s] = StepComplementary(@)]
    /\ UNCHANGED <<pc, search_results, context, queries, qi, error, monitoring_data,
                   free, tail, nextUrl, lastBatch, answer, issued, errSeen,
                   allEmpty, answered, returned, filter_call>>

SessionFinish(s) ==
    /\ sessions[s].pc = "finish"
    /\ sessions' = [sessions EXCEPT ![s] = StepFinish(@)]
    /\ UNCHANGED <<pc, search_results, context, queries, qi, error, monitoring_data,
                   free, tail, nextUrl, lastBatch, answer, issued, errSeen,
                   allEmpty, answered, returned, filter_call>>

SessionMonitor(s) ==
    /\ sessions[s].pc = "raised"
    /\ sessions[s].error = "NameError"
    /\ sessions' = [sessions EXCEPT ![s] = StepMonitor(@)]
    /\ UNCHANGED <<pc, search_results, context, queries, qi, error, monitoring_data,
                   free, tail, nextUrl, lastBatch, answer, issued, errSeen,
                   allEmpty, answered, returned, filter_call>>

TwoNext ==
    \E s \in SessionIds :
        \/ SessionExecute(s)
        \/ SessionBase(s)
        \/ SessionLoop(s)
        \/ SessionComplementary(s)
        \/ SessionFinish(s)
        \/ SessionMonitor(s)

TwoSpec == TwoInit /\ [][TwoNext]_vars

(***************************************************************************)
(* Properties.                                                             *)
(***************************************************************************)
AllItems(sr) ==
    sr.web_results \o sr.social_results \o sr.youtube_results \o sr.viral_content

Last(xs) == xs[Len(xs)]

ItemCount(sr) == Len(AllItems(sr))

TraceSizes(sr) ==
    [i \in DOMAIN sr.marketing_queries_executed |->
        sr.marketing_queries_executed[i].content_size]

\* what the base round put into the running counter
BaseSize(sr) == sr.total_content_size - SumSeq(TraceSizes(sr))

\* a search call has just been answered with a batch equal to the latest batch
\* merged before it
SameBatchAgain ==
    /\ pc \in {"await_complementary", "await_expansion"}
    /\ pc' \in {"loop", "expansion_loop"}
    /\ answer' = "batch"
    /\ lastBatch' = lastBatch

\* C1 - Dedup idempotence: when a round of execute_marketing_focused_search or
\* of ensure_minimum_content_size merges a batch identical to the batch merged
\* last, the item count and total_content_size stay what they were after the
\* first merge.
C1_DedupIdempotence ==
    [][ SameBatchAgain =>
           /\ ItemCount(search_results') = ItemCount(search_results)
           /\ search_results'.total_content_size = search_results.total_content_size
      ]_vars

\* C2 - Size consistency: in every state the running counter total_content_size
\* equals the content size recomputed over the items the result set holds, and
\* equals the size the monitor measures for that result set.
C2_SizeConsistency ==
    /\ search_results.total_content_size = _calculate_content_size(search_results)
    /\ search_results.total_content_size = _calculate_total_size(search_results)

\* C3 - Identity uniqueness: in every state no two items of the result set,
\* in the same or in different category buckets, have the same url.
C3_IdentityUniqueness ==
    LET items == AllItems(search_results)
    IN  \A i, j \in DOMAIN items : i # j => items[i].url # items[j].url

\* C4 - Monotonicity: no step of a session lowers total_content_size or the
\* number of items of any category bucket.
C4_Monotonicity ==
    [][ /\ search_results'.total_content_size >= search_results.total_content_size
        /\ Len(search_results'.web_results) >= Len(search_results.web_results)
        /\ Len(search_results'.social_results) >= Len(search_results.social_results)
        /\ Len(search_results'.youtube_results) >= Len(search_results.youtube_results)
        /\ Len(search_results'.viral_content) >= Len(search_results.viral_content)
      ]_vars

\* C4 witness: an expansion round has merged a batch into a non-empty result
\* set after another round failed
C4_Witness ==
    /\ pc = "loop"
    /\ errSeen
    /\ answer = "batch"
    /\ Len(search_results.marketing_queries_executed) >= 1
    /\ Len(search_results.web_results) >= 2

InRange(score) == 0 <= score.num /\ score.num <= 10 * score.den

\* C6 - Quality bounds: in every snapshot each of the five sub-scores and
\* overall_quality lie between 0 and 10.
C6_QualityBounds ==
    monitoring_data # <<>> =>
        LET qm == monitoring_data[1].quality_metrics
        IN  /\ InRange(qm.content_diversity)
            /\ InRange(qm.source_reliability)
            /\ InRange(qm.marketing_relevance)
            /\ InRange(qm.viral_content_ratio)
            /\ InRange(qm.engagement_quality)
            /\ InRange(qm.overall_quality)

EmfsRunning == pc \in {"idle", "await_base", "loop", "await_complementary", "finish"}

Scenario50Plus60 ==
    /\ BaseSize(search_results) = 50 * KiB
    /\ Len(search_results.marketing_queries_executed) = qi - 1
    /\ \A i \in DOMAIN search_results.marketing_queries_executed :
          /\ search_results.marketing_queries_executed[i].content_size = 60 * KiB
          /\ search_results.marketing_queries_executed[i].results_count = 1

\* C8 - Stop on target: a complementary or expansion search is only issued
\* while total_content_size is below the target; when the base round alone
\* reaches the target no expansion search is issued; when the loop ends with
\* the target met after some round, that round is the one that lifted the size
\* to the target; a 50 KiB base followed by rounds of 60 KiB ends after the
\* 5th expansion search.
C8_StopOnTarget ==
    /\ [][ (pc' \in {"await_complementary", "await_expansion"} /\ pc' # pc) =>
              search_results.total_content_size < target_content_size ]_vars
    /\ []((pc \in {"loop", "await_complementary", "finish"}
           /\ BaseSize(search_results) >= target_content_size) =>
             /\ issued = <<BaseQuery>>
             /\ search_results.marketing_queries_executed = <<>>)
    /\ []((pc = "finish" /\ qi > 1
           /\ search_results.total_content_size >= target_content_size) =>
             /\ search_results.marketing_queries_executed # <<>>
             /\ Last(search_results.marketing_queries_executed).query = queries[qi - 1]
             /\ search_results.total_content_size
                  - Last(search_results.marketing_queries_executed).content_size
                < target_content_size)
    /\ []((pc = "finish" /\ Scenario50Plus60) => Len(issued) - 1 = 5)

\* C8 witness: the 50 KiB + 5 x 60 KiB session at the end of its loop
C8_Witness ==
    /\ pc = "finish"
    /\ Scenario50Plus60
    /\ Len(issued) - 1 = 5
    /\ search_results.total_content_size = 350 * KiB

\* C9 - Recoverable expansion failure: a session in which an expansion search
\* raised does not end with execute_marketing_focused_search raising, and
\* after the failed round the loop is at the next query.
C9_RecoverableExpansionFailure ==
    /\ ~(errSeen /\ pc = "raised")
    /\ (pc = "loop" /\ answer = "error") =>
          (qi >= 2 /\ Last(issued) = queries[qi - 1])

\* C10 - Fatal first round: a failing base search makes
\* execute_marketing_focused_search raise that error, the session then stays
\* in the raised state, and only the base query was ever sent.
C10_FatalFirstRound ==
    /\ [][ (pc = "await_base" /\ answer' = "error" /\ pc' # pc) =>
              (pc' = "raised" /\ error' = "search") ]_vars
    /\ [](error = "search" => (pc = "raised" /\ issued = <<BaseQuery>>))
    /\ [][ error = "search" => (pc' = pc /\ issued' = issued) ]_vars

\* C10 witness: the base search has failed
C10_Witness ==
    /\ error = "search"
    /\ pc = "raised"
    /\ answer = "error"

\* C11 - Final output: whenever the base search succeeded,
\* execute_marketing_focused_search does not end by raising; the only raised
\* end of a session is the one caused by a failing base search.
C11_FinalOutput ==
    pc = "raised" => (error = "search" /\ issued = <<BaseQuery>>)

Categories == {"web_results", "social_results", "youtube_results", "viral_content"}

\* the measured dict has no item at all, or lacks a category key
DegenerateInput(sr) ==
    \/ \A c \in Categories : Get(sr, c, <<>>) = <<>>
    \/ \E c \in Categories : c \notin DOMAIN sr

IsZero(score) == score.num = 0 /\ score.den > 0

AllZeroSnapshot(md) ==
    /\ md.current_size_bytes = 0
    /\ ~md.target_achieved
    /\ IsZero(md.quality_metrics.content_diversity)
    /\ IsZero(md.quality_metrics.source_reliability)
    /\ IsZero(md.quality_metrics.marketing_relevance)
    /\ IsZero(md.quality_metrics.viral_content_ratio)
    /\ IsZero(md.quality_metrics.engagement_quality)
    /\ IsZero(md.quality_metrics.overall_quality)
    /\ IsZero(md.quality_score)
    /\ DOMAIN md.content_breakdown = Categories
    /\ \A c \in Categories :
          /\ md.content_breakdown[c].count = 0
          /\ md.content_breakdown[c].size_bytes = 0
          /\ IsZero(md.content_breakdown[c].avg_size_per_item)
          /\ IsZero(md.content_breakdown[c].percentage_of_total)

Range(xs) == {xs[i] : i \in DOMAIN xs}

\* position of the first occurrence of x in xs
IndexOf(xs, x) == CHOOSE i \in DOMAIN xs : xs[i] = x /\ \A j \in 1..(i - 1) : xs[j] # x

\* C13 - Query expansion order: a sequence returned by
\* _generate_marketing_queries has no duplicate string, every query built from
\* segmento/produto is in it and stands before every query of the generic
\* catalog, and each of the two groups is in the order of its own list.
C13_QueryExpansionOrder ==
    \A c \in DOMAIN returned :
        returned[c].fn = "_generate_marketing_queries" =>
            LET r == returned[c].result
                specific == specific_queries(returned[c].context)
                IsSpecific(q) == q \in Range(specific)
            IN  /\ \A i, j \in DOMAIN r : i # j => r[i] # r[j]
                /\ \A i \in DOMAIN r :
                      r[i] \in Range(specific) \cup Range(marketing_focused_queries)
                /\ Range(specific) \subseteq Range(r)
                /\ \A i, j \in DOMAIN r :
                      (IsSpecific(r[i]) /\ ~IsSpecific(r[j])) => i < j
                /\ \A i, j \in DOMAIN r :
                      (i < j /\ IsSpecific(r[i]) /\ IsSpecific(r[j])) =>
                          IndexOf(specific, r[i]) < IndexOf(specific, r[j])
                /\ \A i, j \in DOMAIN r :
                      (i < j /\ ~IsSpecific(r[i]) /\ ~IsSpecific(r[j])) =>
                          IndexOf(marketing_focused_queries, r[i])
                            < IndexOf(marketing_focused_queries, r[j])

\* C13 witness: a returned sequence of ten context queries followed by the
\* first five of the catalog
C13_Witness ==
    /\ returned # <<>>
    /\ Last(returned).fn = "_generate_marketing_queries"
    /\ Len(Last(returned).result) = 15
    /\ Last(returned).result[10] = "copy curso artesanato alta conversão"
    /\ Last(returned).result[11] = "estratégias marketing digital"

SoloStep(x) ==
    IF x.pc = "idle" THEN StepExecute(x)
    ELSE IF x.pc = "await_base" THEN StepBase(x)
    ELSE IF x.pc = "loop" THEN StepLoop(x)
    ELSE IF x.pc = "await_complementary" THEN StepComplementary(x)
    ELSE IF x.pc = "finish" THEN StepFinish(x)
    ELSE StepMonitor(x)

\* the frame a session ends with when it runs alone
RECURSIVE SoloRun(_)
SoloRun(x) == IF SessionDone(x) THEN x ELSE SoloRun(SoloStep(x))

C18_NoResubmission ==
    \A s \in DOMAIN sessions :
        \A i, j \in DOMAIN sessions[s].issued :
            i # j => sessions[s].issued[i] # sessions[s].issued[j]

\* C16 - Two-part convergence: when the acquisition is over, either the size
\* target and the minimum quality score are both met or the query budget of
\* the loop is used up; it is never over with queries left and a quality
\* score below the threshold.
C16_TwoPartConvergence ==
    pc = "done" =>
        \/ /\ monitoring_data[1].target_achieved
           /\ ~FracLess(monitoring_data[1].quality_score, minimum_quality_threshold)
        \/ qi > Len(queries)

\* C17 - Failed round is a no-op on data: a step in which the search of an
\* expansion round raises leaves the result dict, total_content_size
\* included, exactly as it was.
C17_FailedRoundNoOp ==
    [][ (pc \in {"await_complementary", "await_expansion"}
         /\ answered' = answered + 1 /\ answer' = "error")
        => search_results' = search_results ]_vars

\* C17 witness: a round has failed after earlier rounds had collected items
C17_Witness ==
    /\ pc = "loop"
    /\ answer = "error"
    /\ errSeen
    /\ search_results.web_results # <<>>
    /\ search_results.total_content_size > 0

\* C19 - Strictly sequential rounds: at most one search call is outstanding;
\* a search is issued only when every earlier one has answered; the step in
\* which a batch arrives merges it and updates total_content_size, so the
\* loop head that follows compares the size that includes that round.
C19_SequentialRounds ==
    /\ [](Len(issued) - answered \in {0, 1})
    /\ []((Len(issued) - answered = 1)
            <=> pc \in {"await_base", "await_complementary", "await_expansion"})
    /\ [][ issued' # issued =>
              (Len(issued) = answered /\ Len(issued') = Len(issued) + 1) ]_vars
    /\ [][ (pc = "await_complementary" /\ answered' = answered + 1
            /\ answer' = "batch")
           => /\ pc' = "loop"
              /\ search_results'.total_content_size =
                    search_results.total_content_size
                    + _calculate_content_size(lastBatch'[1])
              /\ Last(search_results'.marketing_queries_executed).query
                    = Last(issued) ]_vars

\* C19 witness: the third search of a session is outstanding, the two before
\* it have answered and the round before it was merged
C19_Witness ==
    /\ pc = "await_complementary"
    /\ Len(issued) = 3
    /\ answered = 2
    /\ answer = "batch"
    /\ Len(search_results.marketing_queries_executed) = 1
    /\ search_results.total_content_size > 0

\* C20 - Merge report accuracy: the trace entry a complementary round records
\* reports as results_count the number of items the round appended to the
\* result set and as content_size the summed size of those appended items.
C20_MergeReportAccuracy ==
    [][ (pc = "await_complementary" /\ answered' = answered + 1
         /\ answer' = "batch")
        => LET entry == Last(search_results'.marketing_queries_executed)
           IN  /\ entry.results_count
                     = ItemCount(search_results') - ItemCount(search_results)
               /\ entry.content_size
                     = _calculate_content_size(search_results')
                       - _calculate_content_size(search_results) ]_vars

Urls(items) == {items[i].url : i \in DOMAIN items}

\* C21 - Category routing: when a round, base or expansion, receives a batch,
\* every item of the batch whose url is non-empty and not yet in the result
\* set is in the bucket of its own category afterwards, for web_results,
\* social_results, youtube_results and viral_content alike.
C21_CategoryRouting ==
    [][ (answered' = answered + 1 /\ answer' = "batch") =>
            \A c \in Categories :
                \A i \in DOMAIN lastBatch'[1][c] :
                    LET item == lastBatch'[1][c][i]
                    IN  (item.url # "" /\ item.url \notin Urls(AllItems(search_results)))
                        => item \in Range(search_results'[c]) ]_vars

\* C22 - Budget consumed regardless of outcome: the step that ends a round,
\* whatever the search answered, moves the loop to the next query; a search is
\* only issued for the loop's current query; execute_marketing_focused_search
\* issues at most 15 searches after the base search,
\* ensure_minimum_content_size at most 15, and both loops are left.
C22_BudgetConsumed ==
    /\ [][ (pc \in {"await_complementary", "await_expansion"}
            /\ answered' = answered + 1)
           => (qi' = qi + 1 /\ queries' = queries) ]_vars
    /\ [][ (issued' # issued /\ pc # "idle")
           => (qi' = qi /\ qi <= MaxQueries /\ Last(issued') = queries[qi]) ]_vars
    /\ [](pc \in {"loop", "finish"} => Len(issued) = qi)
    /\ [](pc = "await_complementary" => (Len(issued) = qi + 1 /\ qi <= 15))
    /\ [](pc = "expansion_loop" => (Len(issued) = 16 + qi - 1 /\ qi <= 16))
    /\ [](pc = "await_expansion" => (Len(issued) = 16 + qi /\ qi <= 15))
    /\ [](Len(issued) <= 1 + 15 + 15)
    /\ (pc = "loop" ~> pc = "finish")
    /\ (pc = "expansion_loop" ~> pc = "ensured")

\* C22 witness: both loops used their 15 queries, with a failed round, an
\* empty answer and a merged batch among the rounds
C22_Witness ==
    /\ pc = "ensured"
    /\ Len(issued) = 31
    /\ qi = 16
    /\ errSeen
    /\ ~allEmpty
    /\ search_results.total_content_size < target_content_size

IsPrefix(xs, ys) == Len(xs) <= Len(ys) /\ SubSeq(ys, 1, Len(xs)) = xs

\* C23 - Append-only result set: in every step of a session each category
\* bucket before the step is a prefix of the bucket after it; items are only
\* added at the end, never removed or reordered.
C23_AppendOnly ==
    [][ \A c \in Categories : IsPrefix(search_results[c], search_results'[c]) ]_vars

\* C23 witness: two rounds have appended to the same bucket, in discovery order
C23_Witness ==
    /\ pc = "loop"
    /\ Len(search_results.web_results) = 2
    /\ search_results.web_results[1].url = Url(1)
    /\ search_results.web_results[2].url = Url(2)
    /\ Len(search_results.marketing_queries_executed) >= 1

Percent(md, c) == md.content_breakdown[c].percentage_of_total

\* C24 - Distribution-balance recommendation: a snapshot in which one of the
\* four categories holds more than 80% of the measured size carries a
\* diversify or rebalance recommendation and not the well-distributed one.
C24_DistributionBalance ==
    (pc = "measured" /\ monitoring_data # <<>>
     /\ \E c \in Categories : FracLess(Frac(80, 1), Percent(monitoring_data[1], c)))
    => LET recs == monitoring_data[1].recommendations
       IN  /\ CountOf(recs, "DIVERSIFICAR") + CountOf(recs, "EQUILIBRAR") >= 1
           /\ CountOf(recs, "BOA DIVERSIDADE") = 0

\* the messages _generate_recommendations can emit for each sub-score
TargetedMessages ==
    [content_diversity |-> {},
     source_reliability |-> {"Melhorar fontes"},
     marketing_relevance |-> {"Aumentar relevância"},
     viral_content_ratio |-> {"Buscar mais conteúdo viral"},
     engagement_quality |-> {}]

\* C25 - Quality recommendations: a snapshot whose quality score is below 7
\* carries the low-quality message and, for each of the five sub-scores,
\* exactly one targeted message when the sub-score is below 6 and none otherwise.
C25_QualityRecommendations ==
    (pc = "measured" /\ monitoring_data # <<>>
     /\ FracLess(monitoring_data[1].quality_score, Frac(7, 1)))
    => LET recs == monitoring_data[1].recommendations
           qm == monitoring_data[1].quality_metrics
           Targeted(metric) ==
               Cardinality({ i \in DOMAIN recs : recs[i] \in TargetedMessages[metric] })
       IN  /\ CountOf(recs, "QUALIDADE BAIXA") = 1
           /\ \A metric \in DOMAIN TargetedMessages :
                 Targeted(metric) = IF FracLess(qm[metric], Frac(6, 1)) THEN 1 ELSE 0

RECURSIVE SumOver(_, _)
\* the sum of f[x] over the elements x of the finite set S
SumOver(f, S) ==
    IF S = {} THEN 0
    ELSE LET x == CHOOSE y \in S : TRUE IN f[x] + SumOver(f, S \ {x})

\* the number of items in the four categories of the measured dict
MeasuredCount ==
    Len(Get(search_results, "web_results", <<>>))
    + Len(Get(search_results, "social_results", <<>>))
    + Len(Get(search_results, "youtube_results", <<>>))
    + Len(Get(search_results, "viral_content", <<>>))

\* C27 - Breakdowns partition the measured set: in every snapshot the counts of
\* the per-category breakdown and of the per-origin breakdown each sum to the
\* number of items in the four categories, and their sizes each sum to
\* current_size_bytes.
C27_BreakdownsPartition ==
    \A i \in DOMAIN monitoring_data :
        LET md == monitoring_data[i]
            cb == md.content_breakdown
            ss == md.size_by_source
        IN  /\ SumOver([t \in DOMAIN cb |-> cb[t].count], DOMAIN cb) = MeasuredCount
            /\ SumOver([t \in DOMAIN cb |-> cb[t].size_bytes], DOMAIN cb)
                 = md.current_size_bytes
            /\ SumOver([s \in DOMAIN ss |-> ss[s].count], DOMAIN ss) = MeasuredCount
            /\ SumOver([s \in DOMAIN ss |-> ss[s].size_bytes], DOMAIN ss)
                 = md.current_size_bytes

\* C28 - Query count is truthful: when execute_marketing_focused_search ends,
\* statistics.queries_executed is the number of search calls made in the
\* session (the base call and every complementary call, those that returned
\* nothing or raised included), and marketing_queries_executed has one entry
\* per complementary call, in issue order.
C28_QueryCountTruthful ==
    (pc = "raised" /\ error = "NameError")
    => LET executed == search_results.marketing_queries_executed
       IN  /\ search_results.statistics.queries_executed = Len(issued)
           /\ Len(executed) = Len(issued) - 1
           /\ \A i \in DOMAIN executed : executed[i].query = issued[i + 1]

\* C29 - No-op when the size target is met: ensure_minimum_content_size called
\* with total_content_size >= target_size issues no search call and returns the
\* result dict unchanged, also when the caller asked for the expansion only
\* because the quality score is below the minimum threshold.
C29_NoopWhenTargetMet ==
    [][ (/\ pc = "monitored"
         /\ check_expansion_needed(monitoring_data[1])
         /\ search_results.total_content_size >= target_content_size)
        => (/\ pc' = "ensured"
            /\ issued' = issued
            /\ search_results' = search_results) ]_vars

\* C29 witness: the call returned with the size target met on both counts
\* while the quality score is below the threshold
C29_Witness ==
    /\ pc = "ensured"
    /\ search_results.total_content_size >= target_content_size
    /\ monitoring_data[1].target_achieved
    /\ FracLess(monitoring_data[1].quality_score, minimum_quality_threshold)
    /\ Len(issued) = Len(search_results.marketing_queries_executed) + 1

(***************************************************************************)
(* _filter_unique_results on its own: any incoming list against any        *)
(* existing list.  An item's url is missing, empty, or one of a few        *)
(* strings, two of which differ only by a trailing blank; `content` tells  *)
(* the items of one list apart.                                            *)
(***************************************************************************)
\* bound: length of the incoming list
MaxIncoming == 3

\* bound: length of the existing list
MaxExisting == 2

NoUrl == "(missing)"

FilterUrls == {NoUrl, "", "a", "a ", "b"}

\* the i-th item of a list, with the given url (or without the key)
FilterItem(u, i) ==
    IF u = NoUrl
    THEN WithoutKeys(NewItem("", i, 0), {"url"})
    ELSE NewItem(u, i, 0)

FilterLists(maxLen) ==
    UNION { { [i \in 1..n |-> FilterItem(us[i], i)] : us \in [1..n -> FilterUrls] } :
            n \in 0..maxLen }

FilterInit ==
    /\ pc = "filter_input"
    /\ filter_call \in { [new_results |-> n, existing_results |-> e,
                          unique_results |-> <<>>, existing_after |-> e] :
                         n \in FilterLists(MaxIncoming), e \in FilterLists(MaxExisting) }
    /\ search_results = NewSearchResults("")
    /\ context = [segmento |-> "", produto |-> ""]
    /\ queries = <<>>
    /\ qi = 0
    /\ error = None
    /\ monitoring_data = <<>>
    /\ free = 0
    /\ tail = "dry"
    /\ nextUrl = 1
    /\ lastBatch = <<>>
    /\ answer = ""
    /\ issued = <<>>
    /\ errSeen = FALSE
    /\ allEmpty = TRUE
    /\ answered = 0
    /\ returned = <<>>
    /\ sessions = <<>>

\* unique = self._filter_unique_results(new_results, existing_results); the
\* function builds a set and a new list and assigns to neither argument
CallFilterUniqueResults ==
    /\ pc = "filter_input"
    /\ filter_call' =
          [filter_call EXCEPT
              !.unique_results = _filter_unique_results(filter_call.new_results,
                                                        filter_call.existing_results),
              !.existing_after = filter_call.existing_results]
    /\ pc' = "filtered"
    /\ UNCHANGED <<search_results, context, queries, qi, error, monitoring_data,
                   free, tail, nextUrl, lastBatch, answer, issued, errSeen,
                   allEmpty, answered, returned, sessions>>

FilterNext == CallFilterUniqueResults

FilterSpec == FilterInit /\ [][FilterNext]_vars

RECURSIVE PickAt(_, _)
\* the items of xs at the positions in K, in the order of xs
PickAt(xs, K) ==
    IF K = {} THEN <<>>
    ELSE LET i == CHOOSE j \in K : \A k \in K : j <= k
         IN  <<xs[i]>> \o PickAt(xs, K \ {i})

\* C30 - Deduplicator filter: _filter_unique_results returns the subsequence of
\* the incoming list made of the first occurrence of each non-empty url that
\* is not in the existing list: no returned item has an empty or missing url,
\* no returned url occurs in the existing list, no two returned items share a
\* url; the existing list is left unchanged.
C30_FilterUnique ==
    pc = "filtered"
    => LET new == filter_call.new_results
           existing == filter_call.existing_results
           unique == filter_call.unique_results
           UrlOf(x) == Get(x, "url", "")
           existing_urls == { UrlOf(existing[i]) : i \in DOMAIN existing }
           First == { i \in DOMAIN new :
                        /\ UrlOf(new[i]) # ""
                        /\ UrlOf(new[i]) \notin existing_urls
                        /\ \A j \in 1..(i - 1) : UrlOf(new[j]) # UrlOf(new[i]) }
       IN  /\ unique = PickAt(new, First)
           /\ \A i \in DOMAIN unique :
                 /\ "url" \in DOMAIN unique[i]
                 /\ unique[i].url # ""
                 /\ unique[i].url \notin existing_urls
           /\ \A i, j \in DOMAIN unique : i # j => unique[i].url # unique[j].url
           /\ filter_call.existing_after = existing

\* C30 witness: a call whose incoming list of three has a url twice and a url
\* of the existing list, and of which one item is returned
C30_Witness ==
    /\ pc = "filtered"
    /\ \E i, j \in DOMAIN filter_call.new_results :
          /\ i < j
          /\ "url" \in DOMAIN filter_call.new_results[i]
          /\ filter_call.new_results[i] # filter_call.new_results[j]
          /\ Get(filter_call.new_results[j], "url", "") = filter_call.new_results[i].url
          /\ filter_call.new_results[i].url # ""
    /\ \E i \in DOMAIN filter_call.new_results, k \in DOMAIN filter_call.existing_results :
          /\ Get(filter_call.new_results[i], "url", "") # ""
          /\ Get(filter_call.new_results[i], "url", "")
               = Get(filter_call.existing_results[k], "url", "")
    /\ Len(filter_call.unique_results) = 1
    /\ Len(filter_call.new_results) = 3
====
